---- MODULE Spec2Model ----
(***************************************************************************)
(* A model of scraper.py: the three URL helpers (_first_url_from_srcset,   *)
(* _resolve_to_absolute, _unwrap_thumb_php) and the extraction run of      *)
(* main(): the cartoon of the day, then five entertainment article cards,  *)
(* then the write of output.json.                                          *)
(*                                                                         *)
(* A Python str is a sequence of one-character strings, so that strip,     *)
(* split, startswith, urljoin, parse_qs and unquote are computed character *)
(* by character.  Python's None is the value None below, which is no       *)
(* sequence of characters.                                                 *)
(***************************************************************************)
EXTENDS Integers, Sequences, FiniteSets, TLC

\* Python's None (an Optional[str] is None or a sequence of characters).
None == <<"None">>

\* The truth value Python gives an Optional[str]: None and "" are falsy.
Truthy(s) == s # None /\ s # <<>>

Min(S) == CHOOSE x \in S : \A y \in S : x <= y
Max(S) == CHOOSE x \in S : \A y \in S : x >= y

--------------------------------------------------------------------------
\* str methods

\* The whitespace str.strip() and str.split() remove.
Whitespace == {" ", "\t", "\n", "\r"}

Suffix(s, k) == SubSeq(s, k, Len(s))
Prefix(s, k) == SubSeq(s, 1, k)

strip(s) ==
    LET keep == {k \in 1..Len(s) : s[k] \notin Whitespace}
    IN  IF keep = {} THEN <<>> ELSE SubSeq(s, Min(keep), Max(keep))

lstrip(s) ==
    LET keep == {k \in 1..Len(s) : s[k] \notin Whitespace}
    IN  IF keep = {} THEN <<>> ELSE Suffix(s, Min(keep))

\* s.find(c), 1-based; 0 when c does not occur.
find(s, c) ==
    LET hits == {k \in 1..Len(s) : s[k] = c}
    IN  IF hits = {} THEN 0 ELSE Min(hits)

startswith(s, p) == Len(s) >= Len(p) /\ Prefix(s, Len(p)) = p
endswith(s, p) == Len(s) >= Len(p) /\ Suffix(s, Len(s) - Len(p) + 1) = p

\* s.split(c): the pieces between the occurrences of c ("" gives [""]).
RECURSIVE split(_, _)
split(s, c) ==
    LET k == find(s, c)
    IN  IF k = 0 THEN <<s>>
        ELSE <<Prefix(s, k - 1)>> \o split(Suffix(s, k + 1), c)

\* s.split(c, 1)
split1(s, c) ==
    LET k == find(s, c)
    IN  IF k = 0 THEN <<s>> ELSE <<Prefix(s, k - 1), Suffix(s, k + 1)>>

\* s.split(): the runs of non-whitespace characters.
RECURSIVE split_ws(_)
split_ws(s) ==
    LET t == lstrip(s)
        ws == {k \in 1..Len(t) : t[k] \in Whitespace}
    IN  IF t = <<>> THEN <<>>
        ELSE IF ws = {} THEN <<t>>
        ELSE <<Prefix(t, Min(ws) - 1)>> \o split_ws(Suffix(t, Min(ws)))

\* c.join(parts)
RECURSIVE join(_, _)
join(parts, c) ==
    IF parts = <<>> THEN <<>>
    ELSE IF Len(parts) = 1 THEN parts[1]
    ELSE parts[1] \o <<c>> \o join(Tail(parts), c)

\* s.replace(a, b) for single characters.
replace(s, a, b) == [k \in 1..Len(s) |-> IF s[k] = a THEN b ELSE s[k]]

Lower == {"a","b","c","d","e","f","g","h","i","j","k","l","m",
          "n","o","p","q","r","s","t","u","v","w","x","y","z"}
Upper == {"A","B","C","D","E","F","G","H","I","J","K","L","M",
          "N","O","P","Q","R","S","T","U","V","W","X","Y","Z"}
Digits == {"0","1","2","3","4","5","6","7","8","9"}

ToLower ==
    [c \in Upper |->
        CASE c = "A" -> "a" [] c = "B" -> "b" [] c = "C" -> "c" [] c = "D" -> "d"
          [] c = "E" -> "e" [] c = "F" -> "f" [] c = "G" -> "g" [] c = "H" -> "h"
          [] c = "I" -> "i" [] c = "J" -> "j" [] c = "K" -> "k" [] c = "L" -> "l"
          [] c = "M" -> "m" [] c = "N" -> "n" [] c = "O" -> "o" [] c = "P" -> "p"
          [] c = "Q" -> "q" [] c = "R" -> "r" [] c = "S" -> "s" [] c = "T" -> "t"
          [] c = "U" -> "u" [] c = "V" -> "v" [] c = "W" -> "w" [] c = "X" -> "x"
          [] c = "Y" -> "y" [] c = "Z" -> "z"]

lower(s) == [k \in 1..Len(s) |-> IF s[k] \in Upper THEN ToLower[s[k]] ELSE s[k]]

--------------------------------------------------------------------------
\* urllib.parse, as imported on line 1, over the characters the model's
\* inputs use: ASCII letters and digits, whitespace and + - . , : / ? # = & %
\* (no ';' parameters, no '[' ']' hosts, no non-ASCII escapes).

SchemeChars == Lower \cup Upper \cup Digits \cup {"+", "-", "."}

\* Of urllib's uses_relative and uses_netloc, the schemes a web page URL has.
UsesRelative == {<<>>, <<"h","t","t","p">>, <<"h","t","t","p","s">>}
UsesNetloc == {<<>>, <<"h","t","t","p">>, <<"h","t","t","p","s">>}

\* The scheme a URL starts with, lowered, and what follows its ':' (the
\* default scheme and the whole URL when it starts with none).
split_scheme(url, defscheme) ==
    LET i == find(url, ":")
    IN  IF /\ i > 1
           /\ url[1] \in Lower \cup Upper
           /\ \A k \in 1..(i - 1) : url[k] \in SchemeChars
        THEN <<lower(Prefix(url, i - 1)), Suffix(url, i + 1)>>
        ELSE <<defscheme, url>>

\* _splitnetloc(url, 2): the netloc ends at the first of / ? #.
_splitnetloc(url) ==
    LET delims == {k \in 3..Len(url) : url[k] \in {"/", "?", "#"}}
    IN  IF delims = {} THEN <<Suffix(url, 3), <<>> >>
        ELSE <<SubSeq(url, 3, Min(delims) - 1), Suffix(url, Min(delims))>>

split_netloc(url) ==
    IF startswith(url, <<"/", "/">>) THEN _splitnetloc(url) ELSE << <<>>, url>>

SplitResult(scheme, netloc, pq, fragment) ==
    [scheme |-> scheme, netloc |-> netloc, path |-> pq[1],
     query |-> IF Len(pq) = 2 THEN pq[2] ELSE <<>>, fragment |-> fragment]

split_query(scheme, netloc, f) ==
    SplitResult(scheme, netloc, split1(f[1], "?"), IF Len(f) = 2 THEN f[2] ELSE <<>>)

split_fragment(scheme, nl) == split_query(scheme, nl[1], split1(nl[2], "#"))

split_after_scheme(sr) == split_fragment(sr[1], split_netloc(sr[2]))

\* urlsplit(url, scheme): [scheme, netloc, path, query, fragment], after the
\* leading whitespace and every tab and newline are removed.
urlsplit(url, defscheme) ==
    split_after_scheme(
        split_scheme(SelectSeq(lstrip(url), LAMBDA c : c \notin {"\t", "\r", "\n"}),
                     defscheme))

\* urlparse(url, scheme): urlsplit, the path having no ';' parameters.
urlparse(url, defscheme) == urlsplit(url, defscheme)

with_query(url, query) == IF query # <<>> THEN url \o <<"?">> \o query ELSE url
with_fragment(url, fragment) == IF fragment # <<>> THEN url \o <<"#">> \o fragment ELSE url
with_scheme(scheme, url) == IF scheme # <<>> THEN scheme \o <<":">> \o url ELSE url
with_netloc(scheme, netloc, path) ==
    IF netloc # <<>> \/ (scheme # <<>> /\ scheme \in UsesNetloc
                         /\ ~startswith(path, <<"/", "/">>))
    THEN <<"/", "/">> \o netloc
         \o (IF path # <<>> /\ path[1] # "/" THEN <<"/">> ELSE <<>>)
         \o path
    ELSE path

\* urlunparse((scheme, netloc, path, '', query, fragment))
urlunparse(scheme, netloc, path, query, fragment) ==
    with_fragment(with_query(with_scheme(scheme, with_netloc(scheme, netloc, path)),
                             query),
                  fragment)

\* The loop of urljoin over the path segments: '..' pops, '.' is dropped.
RECURSIVE resolve_segments(_, _)
resolve_segments(segments, resolved) ==
    IF segments = <<>> THEN resolved
    ELSE IF Head(segments) = <<".", ".">>
    THEN resolve_segments(Tail(segments),
             IF resolved = <<>> THEN <<>> ELSE Prefix(resolved, Len(resolved) - 1))
    ELSE IF Head(segments) = <<".">>
    THEN resolve_segments(Tail(segments), resolved)
    ELSE resolve_segments(Tail(segments), Append(resolved, Head(segments)))

\* base_parts: the base path's segments without the last, unless it is ''.
base_parts(parts) ==
    IF parts[Len(parts)] # <<>> THEN Prefix(parts, Len(parts) - 1) ELSE parts

\* segments[1:-1] = filter(None, segments[1:-1])
squeeze(segments) ==
    IF Len(segments) <= 2 THEN segments
    ELSE <<segments[1]>>
         \o SelectSeq(SubSeq(segments, 2, Len(segments) - 1), LAMBDA seg : seg # <<>>)
         \o <<segments[Len(segments)]>>

segments_of(bpath, path) ==
    IF startswith(path, <<"/">>) THEN split(path, "/")
    ELSE squeeze(base_parts(split(bpath, "/")) \o split(path, "/"))

\* The resolved segments, with a trailing '' after a final '.' or '..'.
resolved_path(segments) ==
    IF segments[Len(segments)] \in {<<".">>, <<".", ".">>}
    THEN Append(resolve_segments(segments, <<>>), <<>>)
    ELSE resolve_segments(segments, <<>>)

or_slash(path) == IF path # <<>> THEN path ELSE <<"/">>

merged_path(bpath, path) == or_slash(join(resolved_path(segments_of(bpath, path)), "/"))

\* urljoin once the netloc is the base's: an empty path keeps the base's.
join_relative(b, r, netloc) ==
    IF r.path = <<>>
    THEN urlunparse(r.scheme, netloc, b.path,
                    IF r.query = <<>> THEN b.query ELSE r.query, r.fragment)
    ELSE urlunparse(r.scheme, netloc, merged_path(b.path, r.path), r.query, r.fragment)

\* urljoin on the parsed base b and the parsed url r.
join_parsed(url, b, r) ==
    IF r.scheme # b.scheme \/ r.scheme \notin UsesRelative THEN url
    ELSE IF r.scheme \in UsesNetloc /\ r.netloc # <<>>
    THEN urlunparse(r.scheme, r.netloc, r.path, r.query, r.fragment)
    ELSE join_relative(b, r, IF r.scheme \in UsesNetloc THEN b.netloc ELSE r.netloc)

join_base(url, b) == join_parsed(url, b, urlparse(url, b.scheme))

urljoin(base, url) ==
    IF base = <<>> THEN url
    ELSE IF url = <<>> THEN base
    ELSE join_base(url, urlparse(base, <<>>))

\* The %xx escapes of the model's inputs and the character each stands for.
HexToChar ==
    [p \in {<<"2","0">>, <<"2","5">>, <<"2","6">>, <<"2","C">>, <<"2","F">>,
            <<"3","A">>, <<"3","D">>, <<"3","F">>} |->
        CASE p = <<"2","0">> -> " " [] p = <<"2","5">> -> "%"
          [] p = <<"2","6">> -> "&" [] p = <<"2","C">> -> ","
          [] p = <<"2","F">> -> "/" [] p = <<"3","A">> -> ":"
          [] p = <<"3","D">> -> "=" [] p = <<"3","F">> -> "?"]

\* unquote(s): one pass, each %xx replaced by its character, a '%' that
\* starts no escape kept.
RECURSIVE unquote(_)
unquote(s) ==
    LET k == find(s, "%")
        rest == Suffix(s, k + 1)
    IN  IF k = 0 THEN s
        ELSE IF Len(rest) >= 2 /\ Prefix(rest, 2) \in DOMAIN HexToChar
        THEN Prefix(s, k - 1) \o <<HexToChar[Prefix(rest, 2)]>>
             \o unquote(Suffix(rest, 3))
        ELSE Prefix(s, k) \o unquote(rest)

\* parse_qsl(qs): the (name, value) pairs of the fields that have a '=' and
\* a non-empty value, '+' read as a space and both sides unquoted.
RECURSIVE parse_fields(_)
parse_fields(fields) ==
    IF fields = <<>> THEN <<>>
    ELSE LET nv == split1(Head(fields), "=")
         IN  IF Len(nv) = 2 /\ nv[2] # <<>>
             THEN << <<unquote(replace(nv[1], "+", " ")),
                       unquote(replace(nv[2], "+", " "))>> >>
                  \o parse_fields(Tail(fields))
             ELSE parse_fields(Tail(fields))

parse_qsl(qs) == IF qs = <<>> THEN <<>> ELSE parse_fields(split(qs, "&"))

\* parse_qs(qs).get(name) or []: the values of the fields called name.
qs_get(qs, name) ==
    LET pairs == SelectSeq(parse_qsl(qs), LAMBDA nv : nv[1] = name)
    IN  [k \in 1..Len(pairs) |-> pairs[k][2]]

--------------------------------------------------------------------------
\* The helpers of scraper.py

_first_url_from_srcset(srcset) ==
    IF ~Truthy(srcset) THEN None
    ELSE LET first == strip(split(srcset, ",")[1])
         IN  IF first # <<>> THEN strip(split_ws(first)[1]) ELSE None

\* _resolve_to_absolute from `u = maybe_url.strip()` on.
resolve_stripped(base_url, u) ==
    IF startswith(u, <<"/", "/">>) THEN <<"h","t","t","p","s",":">> \o u
    ELSE urljoin(base_url, u)

_resolve_to_absolute(base_url, maybe_url) ==
    IF ~Truthy(maybe_url) THEN None ELSE resolve_stripped(base_url, strip(maybe_url))

\* return unquote(src_vals[0]) or u
first_src_or(decoded, u) == IF decoded # <<>> THEN decoded ELSE u

\* _unwrap_thumb_php from `parsed = urlparse(u)` on.
unwrap_parsed(u, path, src_vals) ==
    IF ~endswith(path, <<"/","t","h","u","m","b",".","p","h","p">>) THEN u
    ELSE IF src_vals = <<>> THEN u
    ELSE first_src_or(unquote(src_vals[1]), u)

unwrap_stripped(u, parsed) ==
    unwrap_parsed(u, parsed.path, qs_get(parsed.query, <<"s","r","c">>))

unwrap_url(u) == unwrap_stripped(u, urlparse(u, <<>>))

_unwrap_thumb_php(maybe_thumb_url) ==
    IF ~Truthy(maybe_thumb_url) THEN None ELSE unwrap_url(strip(maybe_thumb_url))

--------------------------------------------------------------------------
\* The pages main() visits and the values the rendered page can hand back.

\* "https://ekantipur.com", "https://ekantipur.com/cartoon" and
\* "https://ekantipur.com/entertainment": page.url after each goto.
HomeUrl == <<"h","t","t","p","s",":","/","/","e","k","a","n","t","i","p","u","r",".","c","o","m">>
CartoonUrl == HomeUrl \o <<"/","c","a","r","t","o","o","n">>
EntertainmentUrl == HomeUrl \o <<"/","e","n","t","e","r","t","a","i","n","m","e","n","t">>

\* The label of the entertainment section (the source's Devanagari word,
\* written here in Latin letters).
FallbackCategory == <<"m","a","n","o","r","a","n","j","a","n">>

\* range(5): the number of article cards main() reads.
NumArticles == 5

\* At most MaxVaried of the six scraped entities (the cartoon, five cards)
\* have arbitrary content in one run; the others are plain: a title "T", no
\* category link, no author link, no image.
MaxVaried == 1

\* What inner_text() can return: " " and " T ".
TextValues == {<<" ">>, <<" ", "T", " ">>}
PlainText == <<"T">>

\* The image attributes in the order the code reads them.
ImgAttrs == <<"src", "data-src", "data-original", "data-lazy", "data-srcset", "srcset">>

\* An absent attribute, an empty one, a blank one.
NoValue == {None, <<>>, <<" ">>}

\* What a URL attribute (src, data-src, data-original, data-lazy) can hold:
\*   "//cdn/x.jpg"
\*   "https://cdn/thumb.php?src=https%3A%2F%2Fcdn%2Fx.jpg"
\*   "/thumb.php?src=%2Fthumb.php%3Fsrc%3D%2Fa.jpg"
UrlValues ==
    NoValue \cup
    { <<"/","/","c","d","n","/","x",".","j","p","g">>,
      <<"h","t","t","p","s",":","/","/","c","d","n","/","t","h","u","m","b",".","p","h","p","?","s","r","c","=","h","t","t","p","s","%","3","A","%","2","F","%","2","F","c","d","n","%","2","F","x",".","j","p","g">>,
      <<"/","t","h","u","m","b",".","p","h","p","?","s","r","c","=","%","2","F","t","h","u","m","b",".","p","h","p","%","3","F","s","r","c","%","3","D","%","2","F","a",".","j","p","g">> }

\* What a srcset attribute (data-srcset, srcset) can hold:
\*   "https://cdn/x.jpg 1x, /b.jpg 2x"
SrcsetValues ==
    NoValue \cup
    { <<"h","t","t","p","s",":","/","/","c","d","n","/","x",".","j","p","g"," ","1","x",","," ","/","b",".","j","p","g"," ","2","x">> }

\* get_attribute(ImgAttrs[k]) of an image element.
AttrValues(k) == IF k <= 4 THEN UrlValues ELSE SrcsetValues

--------------------------------------------------------------------------
\* The statements of main() that compute a field

\* t = loc.inner_text().strip(); field = t or None
text_or_none(t) == IF strip(t) # <<>> THEN strip(t) ELSE None

\* category_or_default with the fixed label given only when the card has no
\* category link, a blank link text leaving the category None.
category_default_when_absent(locator_text) ==
    IF locator_text # None THEN text_or_none(locator_text) ELSE FallbackCategory

\* The category of a card from its category link (None: no such link).
category_or_default(locator_text) ==
    LET found == IF locator_text # None THEN text_or_none(locator_text) ELSE None
    IN  IF found = None THEN FallbackCategory ELSE found

\* The step after `src = img.get_attribute("src")`: the lazy attributes are
\* read only when the image exists and src is falsy.
after_src(count, v) == IF count > 0 /\ ~Truthy(v) THEN ImgAttrs[2] ELSE "resolve"

\* after_lazy with every operand evaluated, whatever the earlier ones gave.
after_lazy_eager(k, v) == ImgAttrs[k + 1]

\* The step after operand k (2..5) of
\*   get("data-src") or get("data-original") or get("data-lazy") or get("data-srcset")
\* returned v: a truthy operand ends the expression; after the last operand
\* a falsy value leads on to srcset.
after_lazy(k, v) == IF Truthy(v) THEN "resolve" ELSE ImgAttrs[k + 1]

\* The value the or-expression has once operand k returned v: v when the
\* expression ends there.
or_value(k, v, old) == IF Truthy(v) \/ k = 5 THEN v ELSE old

--------------------------------------------------------------------------
VARIABLES
    pc,                 \* <<part of main, statement about to run>>
    page_url,           \* page.url
    budget,             \* entities that may still have arbitrary content
    arbitrary,          \* the entity being read has arbitrary content
    cartoon_title, cartoon_img, cartoon_src, cartoon_image_url, cartoonist,
    cartoon,            \* the cartoon dict
    i,                  \* the index of the article loop
    title, category_locator, category, author, img, src, thumbnail_url,
    articles,           \* the list of article dicts
    fetched,            \* the get_attribute calls made on the current image,
                        \* each with the truth value of what it returned
    output              \* what output.json holds

vars == <<pc, page_url, budget, arbitrary, cartoon_title, cartoon_img,
          cartoon_src, cartoon_image_url, cartoonist, cartoon, i, title,
          category_locator, category, author, img, src, thumbnail_url,
          articles, fetched, output>>

cartoonVars == <<cartoon_title, cartoon_img, cartoon_src, cartoon_image_url,
                 cartoonist, cartoon>>
articleVars == <<i, title, category_locator, category, author, img, src,
                 thumbnail_url, articles>>

\* A name main() has not bound yet, and a file not written yet.
Unbound == [unbound |-> TRUE]

Init ==
    /\ pc = <<"main", "start">>
    /\ page_url = HomeUrl
    /\ budget = MaxVaried
    /\ arbitrary = FALSE
    /\ cartoon_title = None /\ cartoon_img = 0 /\ cartoon_src = None
    /\ cartoon_image_url = None /\ cartoonist = None /\ cartoon = Unbound
    /\ i = 0 /\ title = None /\ category_locator = None /\ category = None
    /\ author = None /\ img = 0 /\ src = None /\ thumbnail_url = None
    /\ articles = <<>>
    /\ fetched = <<>>
    /\ output = Unbound

\* The content of the next entity: arbitrary while the budget lasts.
Choices == IF budget > 0 THEN BOOLEAN ELSE {FALSE}
Texts(arb) == IF arb THEN TextValues ELSE {PlainText}
Counts(arb) == IF arb THEN {0, 1} ELSE {0}

\* page.goto("https://ekantipur.com/cartoon")
GotoCartoon ==
    /\ pc = <<"main", "start">>
    /\ page_url' = CartoonUrl
    /\ pc' = <<"cartoon", "title">>
    /\ UNCHANGED <<budget, arbitrary, cartoonVars, articleVars, fetched, output>>

\* cartoon_title: the text of the first h1, None when there is none.
CartoonTitle ==
    /\ pc = <<"cartoon", "title">>
    /\ \E arb \in Choices :
        /\ arbitrary' = arb
        /\ budget' = IF arb THEN budget - 1 ELSE budget
        /\ \E count \in (IF arb THEN {0, 1} ELSE {1}), t \in Texts(arb) :
              cartoon_title' = IF count > 0 THEN text_or_none(t) ELSE None
    /\ pc' = <<"cartoon", "img">>
    /\ UNCHANGED <<page_url, cartoon_img, cartoon_src, cartoon_image_url,
                   cartoonist, cartoon, articleVars, fetched, output>>

\* cartoon_img = page.locator(...).first; cartoon_src = None
CartoonImg ==
    /\ pc = <<"cartoon", "img">>
    /\ cartoon_img' \in Counts(arbitrary)
    /\ cartoon_src' = None
    /\ fetched' = <<>>
    /\ pc' = <<"cartoon", ImgAttrs[1]>>
    /\ UNCHANGED <<page_url, budget, arbitrary, cartoon_title, cartoon_image_url,
                   cartoonist, cartoon, articleVars, output>>

\* if cartoon_img.count() > 0: cartoon_src = cartoon_img.get_attribute("src")
CartoonGetSrc ==
    /\ pc = <<"cartoon", ImgAttrs[1]>>
    /\ IF cartoon_img > 0
       THEN \E v \in AttrValues(1) :
              /\ cartoon_src' = v
              /\ fetched' = Append(fetched, [attr |-> ImgAttrs[1], truthy |-> Truthy(v)])
       ELSE UNCHANGED <<cartoon_src, fetched>>
    /\ pc' = <<"cartoon", after_src(cartoon_img, cartoon_src')>>
    /\ UNCHANGED <<page_url, budget, arbitrary, cartoon_title, cartoon_img,
                   cartoon_image_url, cartoonist, cartoon, articleVars, output>>

\* One operand of the or-expression over the lazy-load attributes.
CartoonGetLazy ==
    \E k \in 2..5 :
        /\ pc = <<"cartoon", ImgAttrs[k]>>
        /\ \E v \in AttrValues(k) :
              /\ fetched' = Append(fetched, [attr |-> ImgAttrs[k], truthy |-> Truthy(v)])
              /\ cartoon_src' = or_value(k, v, cartoon_src)
              /\ pc' = <<"cartoon", after_lazy(k, v)>>
        /\ UNCHANGED <<page_url, budget, arbitrary, cartoon_title, cartoon_img,
                       cartoon_image_url, cartoonist, cartoon, articleVars, output>>

\* cartoon_src = _first_url_from_srcset(cartoon_img.get_attribute("srcset"))
CartoonGetSrcset ==
    /\ pc = <<"cartoon", ImgAttrs[6]>>
    /\ \E v \in AttrValues(6) :
          /\ fetched' = Append(fetched, [attr |-> ImgAttrs[6], truthy |-> Truthy(v)])
          /\ cartoon_src' = _first_url_from_srcset(v)
    /\ pc' = <<"cartoon", "resolve">>
    /\ UNCHANGED <<page_url, budget, arbitrary, cartoon_title, cartoon_img,
                   cartoon_image_url, cartoonist, cartoon, articleVars, output>>

\* cartoon_image_url = _resolve_to_absolute(page.url, cartoon_src)
CartoonResolve ==
    /\ pc = <<"cartoon", "resolve">>
    /\ cartoon_image_url' = _resolve_to_absolute(page_url, cartoon_src)
    /\ fetched' = <<>>
    /\ pc' = <<"cartoon", "unwrap">>
    /\ UNCHANGED <<page_url, budget, arbitrary, cartoon_title, cartoon_img,
                   cartoon_src, cartoonist, cartoon, articleVars, output>>

\* cartoon_image_url = _unwrap_thumb_php(cartoon_image_url)
CartoonUnwrap ==
    /\ pc = <<"cartoon", "unwrap">>
    /\ cartoon_image_url' = _unwrap_thumb_php(cartoon_image_url)
    /\ pc' = <<"cartoon", "author">>
    /\ UNCHANGED <<page_url, budget, arbitrary, cartoon_title, cartoon_img,
                   cartoon_src, cartoonist, cartoon, articleVars, fetched, output>>

\* cartoonist: the text of the first author link, None when there is none.
CartoonAuthor ==
    /\ pc = <<"cartoon", "author">>
    /\ \E count \in Counts(arbitrary), t \in Texts(arbitrary) :
          cartoonist' = IF count > 0 THEN text_or_none(t) ELSE None
    /\ pc' = <<"cartoon", "record">>
    /\ UNCHANGED <<page_url, budget, arbitrary, cartoon_title, cartoon_img,
                   cartoon_src, cartoon_image_url, cartoon, articleVars,
                   fetched, output>>

\* cartoon = {"title": ..., "image_url": ..., "cartoonist": ...}; the locals
\* it was built from are not read again, and the model forgets them.
CartoonRecord ==
    /\ pc = <<"cartoon", "record">>
    /\ cartoon' = [title |-> cartoon_title, image_url |-> cartoon_image_url,
                   cartoonist |-> cartoonist]
    /\ cartoon_title' = None /\ cartoon_img' = 0 /\ cartoon_src' = None
    /\ cartoon_image_url' = None /\ cartoonist' = None
    /\ pc' = <<"main", "entertainment">>
    /\ UNCHANGED <<page_url, budget, arbitrary, articleVars, fetched, output>>

\* page.goto(".../entertainment") and the two wait_for calls, which raise
\* when no article card (with a title link) shows up; articles = [].
GotoEntertainment ==
    /\ pc = <<"main", "entertainment">>
    /\ page_url' = EntertainmentUrl
    /\ articles' = <<>>
    /\ i' = 0
    /\ \E visible \in BOOLEAN :
          pc' = IF visible THEN <<"article", "title">> ELSE <<"main", "timeout">>
    /\ UNCHANGED <<budget, arbitrary, cartoonVars, title, category_locator,
                   category, author, img, src, thumbnail_url, fetched, output>>

\* title = card.locator("h2 a").first.inner_text().strip(): inner_text()
\* raises when the card has no title link.
ArticleTitle ==
    /\ pc = <<"article", "title">>
    /\ \E arb \in Choices :
        /\ arbitrary' = arb
        /\ budget' = IF arb THEN budget - 1 ELSE budget
        /\ \E count \in (IF arb THEN {0, 1} ELSE {1}), t \in Texts(arb) :
              IF count > 0
              THEN /\ title' = strip(t)
                   /\ pc' = <<"article", "category_locator">>
              ELSE /\ title' = title
                   /\ pc' = <<"article", "raised">>
    /\ UNCHANGED <<page_url, cartoonVars, i, category_locator, category, author,
                   img, src, thumbnail_url, articles, fetched, output>>

\* category = None; category_locator = card.locator(...).first
ArticleCategoryLocator ==
    /\ pc = <<"article", "category_locator">>
    /\ \E count \in Counts(arbitrary), t \in Texts(arbitrary) :
          category_locator' = IF count > 0 THEN t ELSE None
    /\ category' = None
    /\ pc' = <<"article", "category">>
    /\ UNCHANGED <<page_url, budget, arbitrary, cartoonVars, i, title, author,
                   img, src, thumbnail_url, articles, fetched, output>>

\* The two ifs that set category from the link text or the fixed label.
ArticleCategory ==
    /\ pc = <<"article", "category">>
    /\ category' = category_or_default(category_locator)
    /\ pc' = <<"article", "author">>
    /\ UNCHANGED <<page_url, budget, arbitrary, cartoonVars, i, title,
                   category_locator, author, img, src, thumbnail_url, articles,
                   fetched, output>>

\* author: the text of the card's first author link, None when there is none.
ArticleAuthor ==
    /\ pc = <<"article", "author">>
    /\ \E count \in Counts(arbitrary), t \in Texts(arbitrary) :
          author' = IF count > 0 THEN text_or_none(t) ELSE None
    /\ pc' = <<"article", "img">>
    /\ UNCHANGED <<page_url, budget, arbitrary, cartoonVars, i, title,
                   category_locator, category, img, src, thumbnail_url, articles,
                   fetched, output>>

\* img = card.locator("img").first; src = None
ArticleImg ==
    /\ pc = <<"article", "img">>
    /\ img' \in Counts(arbitrary)
    /\ src' = None
    /\ fetched' = <<>>
    /\ pc' = <<"article", ImgAttrs[1]>>
    /\ UNCHANGED <<page_url, budget, arbitrary, cartoonVars, i, title,
                   category_locator, category, author, thumbnail_url, articles,
                   output>>

\* if img.count() > 0: src = img.get_attribute("src")
ArticleGetSrc ==
    /\ pc = <<"article", ImgAttrs[1]>>
    /\ IF img > 0
       THEN \E v \in AttrValues(1) :
              /\ src' = v
              /\ fetched' = Append(fetched, [attr |-> ImgAttrs[1], truthy |-> Truthy(v)])
       ELSE UNCHANGED <<src, fetched>>
    /\ pc' = <<"article", after_src(img, src')>>
    /\ UNCHANGED <<page_url, budget, arbitrary, cartoonVars, i, title,
                   category_locator, category, author, img, thumbnail_url,
                   articles, output>>

\* One operand of the or-expression over the lazy-load attributes.
ArticleGetLazy ==
    \E k \in 2..5 :
        /\ pc = <<"article", ImgAttrs[k]>>
        /\ \E v \in AttrValues(k) :
              /\ fetched' = Append(fetched, [attr |-> ImgAttrs[k], truthy |-> Truthy(v)])
              /\ src' = or_value(k, v, src)
              /\ pc' = <<"article", after_lazy(k, v)>>
        /\ UNCHANGED <<page_url, budget, arbitrary, cartoonVars, i, title,
                       category_locator, category, author, img, thumbnail_url,
                       articles, output>>

\* src = _first_url_from_srcset(img.get_attribute("srcset"))
ArticleGetSrcset ==
    /\ pc = <<"article", ImgAttrs[6]>>
    /\ \E v \in AttrValues(6) :
          /\ fetched' = Append(fetched, [attr |-> ImgAttrs[6], truthy |-> Truthy(v)])
          /\ src' = _first_url_from_srcset(v)
    /\ pc' = <<"article", "resolve">>
    /\ UNCHANGED <<page_url, budget, arbitrary, cartoonVars, i, title,
                   category_locator, category, author, img, thumbnail_url,
                   articles, output>>

\* thumbnail_url = _resolve_to_absolute(page.url, src)
ArticleResolve ==
    /\ pc = <<"article", "resolve">>
    /\ thumbnail_url' = _resolve_to_absolute(page_url, src)
    /\ fetched' = <<>>
    /\ pc' = <<"article", "append">>
    /\ UNCHANGED <<page_url, budget, arbitrary, cartoonVars, i, title,
                   category_locator, category, author, img, src, articles,
                   output>>

\* articles.append({...}) and the step of `for i in range(5)`; the locals of
\* the iteration are assigned again before they are read, and the model
\* forgets them.
ArticleAppend ==
    /\ pc = <<"article", "append">>
    /\ articles' = Append(articles, [title |-> title, image_url |-> thumbnail_url,
                                     category |-> category, author |-> author])
    /\ i' = i + 1
    /\ pc' = IF i + 1 < NumArticles THEN <<"article", "title">> ELSE <<"main", "write">>
    /\ title' = None /\ category_locator' = None /\ category' = None
    /\ author' = None /\ img' = 0 /\ src' = None /\ thumbnail_url' = None
    /\ UNCHANGED <<page_url, budget, arbitrary, cartoonVars, fetched, output>>

\* json.dump({"cartoon": cartoon, "entertainment_articles": articles}, f)
WriteOutput ==
    /\ pc = <<"main", "write">>
    /\ output' = [cartoon |-> cartoon, entertainment_articles |-> articles]
    /\ pc' = <<"main", "done">>
    /\ UNCHANGED <<page_url, budget, arbitrary, cartoonVars, articleVars, fetched>>

Next ==
    \/ GotoCartoon
    \/ CartoonTitle
    \/ CartoonImg
    \/ CartoonGetSrc
    \/ CartoonGetLazy
    \/ CartoonGetSrcset
    \/ CartoonResolve
    \/ CartoonUnwrap
    \/ CartoonAuthor
    \/ CartoonRecord
    \/ GotoEntertainment
    \/ ArticleTitle
    \/ ArticleCategoryLocator
    \/ ArticleCategory
    \/ ArticleAuthor
    \/ ArticleImg
    \/ ArticleGetSrc
    \/ ArticleGetLazy
    \/ ArticleGetSrcset
    \/ ArticleResolve
    \/ ArticleAppend
    \/ WriteOutput

Spec == Init /\ [][Next]_vars

--------------------------------------------------------------------------
\* Properties

\* A thumb.php?src=... wrapper: the path ends in /thumb.php and the query
\* has a src parameter.
IsThumbWrapper(u) ==
    /\ endswith(urlparse(u, <<>>).path, <<"/","t","h","u","m","b",".","p","h","p">>)
    /\ qs_get(urlparse(u, <<>>).query, <<"s","r","c">>) # <<>>

\* A string that is non-empty after trimming: it has a character that is
\* no whitespace.
NonBlank(s) == s # None /\ \E j \in 1..Len(s) : s[j] \notin Whitespace

\* None, or empty after trimming.
Blank(s) == s = None \/ strip(s) = <<>>

\* A text field as the data model wants it: None, or non-empty after trimming.
TextFieldOk(t) == t = None \/ strip(t) # <<>>

\* The text of a srcset list: a descriptor after whitespace, or a comma
\* between candidates.
HasSrcsetSyntax(u) == \E k \in 1..Len(u) : u[k] \in Whitespace \cup {","}

\* C1: the image_url of every record, cartoon and article alike, is the
\* candidate resolved against the page URL and then passed through the
\* thumb.php unwrapper, so that no article record holds a thumb.php?src=...
\* wrapper.
C1_ImageUrlResolvedThenUnwrapped ==
    /\ pc = <<"cartoon", "author">> =>
          cartoon_image_url
              = _unwrap_thumb_php(_resolve_to_absolute(page_url, cartoon_src))
    /\ pc = <<"article", "append">> =>
          thumbnail_url = _unwrap_thumb_php(_resolve_to_absolute(page_url, src))
    /\ \A k \in 1..Len(articles) :
          articles[k].image_url = None \/ ~IsThumbWrapper(articles[k].image_url)

\* C2: the candidate the attribute chain hands on is never None-like: a
\* value that is None, "" or whitespace-only is skipped, so a candidate that
\* is not None is non-empty after trimming.
C2_ChainSkipsBlankCandidates ==
    /\ pc = <<"cartoon", "resolve">> /\ cartoon_src # None
          => strip(cartoon_src) # <<>>
    /\ pc = <<"article", "resolve">> /\ src # None => strip(src) # <<>>

\* C3: no article record is appended with an absent or empty title.
C3_ArticleTitleNeverEmpty ==
    \A k \in 1..Len(articles) :
        articles[k].title # None /\ articles[k].title # <<>>

\* C4: every text field of a finished record is None or non-empty after
\* trimming.
C4_TextFieldsNoneOrNonEmpty ==
    /\ cartoon # Unbound =>
          TextFieldOk(cartoon.title) /\ TextFieldOk(cartoon.cartoonist)
    /\ \A k \in 1..Len(articles) :
          /\ TextFieldOk(articles[k].title)
          /\ TextFieldOk(articles[k].category)
          /\ TextFieldOk(articles[k].author)

\* C5: _resolve_to_absolute returns None for a candidate that is None or
\* empty after trimming.
C5_ResolveBlankIsNone ==
    /\ pc = <<"cartoon", "unwrap">> /\ Blank(cartoon_src)
          => cartoon_image_url = None
    /\ pc = <<"article", "append">> /\ Blank(src) => thumbnail_url = None

\* C6: no image URL that is stored holds the text of a srcset list (a
\* descriptor, or several comma-separated candidates).
C6_NoSrcsetTextStored ==
    /\ cartoon # Unbound /\ cartoon.image_url # None
          => ~HasSrcsetSyntax(cartoon.image_url)
    /\ \A k \in 1..Len(articles) :
          articles[k].image_url # None => ~HasSrcsetSyntax(articles[k].image_url)

\* C7: a field that cannot be extracted never keeps the records from being
\* written: a run that ends, other than by the page never showing an
\* article, has written output.json.
C7_MissingFieldNeverBlocksOutput ==
    pc[2] \in {"raised", "done"} => output # Unbound

\* C8: one application of _unwrap_thumb_php reaches a fixed point.
C8_UnwrapIdempotent ==
    pc = <<"cartoon", "author">> =>
        _unwrap_thumb_php(cartoon_image_url) = cartoon_image_url

\* C9: the category of a card is the trimmed text of its category link when
\* there is one with a non-blank text, and the fixed label otherwise; it is
\* never None, and looking the category up never raises.
C9_CategoryIsTextOrFallback ==
    /\ pc = <<"article", "author">> =>
          category = IF category_locator # None /\ strip(category_locator) # <<>>
                     THEN strip(category_locator)
                     ELSE FallbackCategory
    /\ \A k \in 1..Len(articles) : NonBlank(articles[k].category)
    /\ pc = <<"article", "raised">> => category_locator = None /\ category = None

\* A card whose category link has a blank text got the fixed label.
C9_Witness ==
    /\ pc = <<"article", "author">>
    /\ category_locator = <<" ">>
    /\ category = FallbackCategory

\* C10: the attributes of an image are fetched in the order src, data-src,
\* data-original, data-lazy, data-srcset, srcset, and none is fetched after
\* a fetch returned a truthy value: every fetch but the last returned a
\* falsy one.
C10_FetchesShortCircuit ==
    /\ Len(fetched) <= Len(ImgAttrs)
    /\ \A k \in 1..Len(fetched) : fetched[k].attr = ImgAttrs[k]
    /\ \A k \in 1..(Len(fetched) - 1) : ~fetched[k].truthy

\* The chain of an article image stopped at data-original, its first truthy
\* attribute.
C10_Witness ==
    /\ pc = <<"article", "resolve">>
    /\ Len(fetched) = 3
    /\ fetched[3].truthy

====
